---- MODULE Spec2Model ----
(***************************************************************************)
(* bot-fetcher: the ingestion pipeline (src/src/ingest.py), the content    *)
(* extractor (src/src/web_scraping.py), the chunker (src/src/chunker.py)   *)
(* and the feed poller's store writes (src/src/fetch_rss.py).              *)
(*                                                                         *)
(* A text is a sequence of one-character strings.  A SHA-256 digest is     *)
(* modelled as an injective tag around its input.  What the network and    *)
(* the third-party parsers answer for one URL is an environment record     *)
(* `web`, chosen nondeterministically for every call of fetch_content.     *)
(***************************************************************************)
EXTENDS Integers, Sequences, FiniteSets, TLC

VARIABLES
    db_file,        \* ingest.py db_exists(): the SQLite file exists
    urls,           \* table urls, rows [url, ingested] in rowid order
    chroma,         \* the Chroma collection: the set of stored ids
    pc,             \* position of run_pipeline
    pending,        \* run_pipeline's local `urls` (get_pending_urls)
    k,              \* process_urls: index of the next URL of the loop
    docs,           \* process_urls: docs
    ingested_urls,  \* process_urls: ingested_urls
    chunks_with_ids,\* filter_new_chunks: chunks_with_ids
    existing_ids,   \* filter_new_chunks: existing_ids
    new_chunks,     \* run_pipeline: new_chunks
    submitted,      \* the batch handed to db.add_documents in this run
    log,            \* history: one entry per fetch_content call of this run
    merge,          \* history: "not_started" | "completed" | "raised"
    outcome,        \* history: how the last run of run_pipeline ended
    runs,           \* number of runs started
    web,            \* extractor harness: the environment of one call
    arg_url,        \* extractor harness: the url argument
    ret,            \* extractor harness: what fetch_content returned
    merged,         \* merge harness: the index after the batch was merged
    id_calls,       \* id harness: the calls of calculate_chunk_ids so far
    feeds,          \* table feeds, the set of its rows [name, url]
    other,          \* a second process in run_pipeline: its merge
    ret_scrapping,  \* extractor harness: what web_scrapping.fetch_content
                    \* returned
    inserted        \* history: the URLs save_item inserted since the running
                    \* or last run read its pending list

vars == <<db_file, urls, chroma, pc, pending, k, docs, ingested_urls,
          chunks_with_ids, existing_ids, new_chunks, submitted, log, merge,
          outcome, runs, web, arg_url, ret, merged,
                   id_calls, feeds, other, ret_scrapping,
                   inserted>>

pipeline_vars == <<db_file, urls, chroma, pc, pending, k, docs, ingested_urls,
                   chunks_with_ids, existing_ids, new_chunks, submitted, log,
                   merge, outcome, runs, inserted>>

harness_vars == <<web, arg_url, ret, merged,
                   id_calls, feeds, other, ret_scrapping>>

-----------------------------------------------------------------------------
(* Bounds *)

NumUrls == 2
MaxRuns == 2

(* Program constants *)

MinLength == 100
chunk_size == 500
chunk_overlap == 100

-----------------------------------------------------------------------------
(* Texts *)

UrlNames == <<"u1", "u2", "u3", "u4">>
Urls == {UrlNames[i] : i \in 1..NumUrls}

Whitespace == {" ", "\n"}
Surrogate == "\\ud800"
Alphabet == <<"a", "b", "c", "d", "e", "f", "g">>

Capitals == <<"A", "B", "C", "D", "E", "F", "G">>

Text(off, n) == [i \in 1..n |-> Alphabet[((i + off) % 7) + 1]]
Upper(off, n) == [i \in 1..n |-> Capitals[((i + off) % 7) + 1]]
Blank(n) == [i \in 1..n |-> " "]
Newlines(n) == [i \in 1..n |-> "\n"]
ErrorStr == <<"E", "r", "r", "o", "r">>

Least(S) == CHOOSE x \in S : \A y \in S : x <= y

\* str.strip(): leading and trailing whitespace removed.
strip(t) ==
    LET n == Len(t)
        solid == {i \in 1..n : t[i] \notin Whitespace}
        fromEnd == {n + 1 - i : i \in solid}
    IN  IF solid = {} THEN <<>>
        ELSE SubSeq(t, Least(solid), n + 1 - Least(fromEnd))

\* content.encode("utf-8", errors="ignore").decode("utf-8", errors="ignore"):
\* a lone surrogate cannot be encoded and is dropped.
IsEncodable(c) == c # Surrogate
clean_text(content) == SelectSeq(content, IsEncodable)

\* hashlib.sha256(s.encode("utf-8")).hexdigest(), taken to be injective.
sha256(s) == <<"sha256", s>>

-----------------------------------------------------------------------------
(* The environment of one fetch_content call *)

Throws == [throws |-> TRUE, text |-> <<>>]
Yields(t) == [throws |-> FALSE, text |-> t]

FetchStatuses == {"200", "404", "timeout", "connection_error"}
PdfContentTypes == {"application/pdf", "application/pdf; charset=binary"}
ContentTypes == PdfContentTypes \cup {"text/html; charset=utf-8", ""}

\* "\n".join(page.get_text() for page in doc)
PdfTexts ==
    { <<>>, ErrorStr, ErrorStr \o <<"\n">>, Text(5, MinLength + 20) }

\* article.text after download() and parse()
ArticleTexts ==
    { Text(0, MinLength), Text(0, MinLength - 1), ErrorStr,
      ErrorStr \o Newlines(MinLength - 5),
      Blank(30) \o Text(0, MinLength - 20),
      Text(0, MinLength) \o <<Surrogate>> }

\* soup.get_text(separator="\n", strip=True)
HtmlTexts ==
    { Text(3, MinLength), Text(3, MinLength - 1), ErrorStr,
      Text(3, 60) \o <<"\n">> \o Text(4, 60),
      <<Surrogate>> \o Text(3, MinLength) }

Results(T) == {Throws} \cup {Yields(t) : t \in T}

Webs ==
    [status : FetchStatuses, content_type : ContentTypes,
     pdf : Results(PdfTexts), article : Results(ArticleTexts),
     html : Results(HtmlTexts)]

-----------------------------------------------------------------------------
(* web_scraping.py *)

NoDoc ==
    [page_content |-> <<>>,
     metadata |-> [source |-> "", source_id |-> <<>>, type |-> ""]]

Return(doc, calls) == [raised |-> FALSE, doc |-> doc, calls |-> calls]
Raise(calls) == [raised |-> TRUE, doc |-> NoDoc, calls |-> calls]

newspaper_scraper(article) ==
    IF article.throws THEN ErrorStr
    ELSE IF Len(article.text) < MinLength THEN ErrorStr
    ELSE strip(article.text)

beautifulsoup_scraper(html) ==
    IF html.throws THEN ErrorStr
    ELSE IF Len(html.text) < MinLength THEN ErrorStr
    ELSE html.text

pdf_scraper(pdf) ==
    IF pdf.throws THEN ErrorStr ELSE pdf.text

build_document(content, url, source_id, doc_type) ==
    [page_content |-> clean_text(content),
     metadata |-> [source |-> url, source_id |-> source_id, type |-> doc_type]]

\* requests.get(url, timeout=15) and raise_for_status(): TRUE when it raises.
fetch_url_never_raises(response) == FALSE
fetch_url(response) == response.status # "200"

hash_url(url) == sha256(url)

handle_html_or_article(response, url, source_id) ==
    LET article == newspaper_scraper(response.article)
        html == beautifulsoup_scraper(response.html)
    IN  IF article # ErrorStr
        THEN Return(build_document(article, url, source_id, "Article"),
                    <<"newspaper_scraper">>)
        ELSE IF html # ErrorStr
        THEN Return(build_document(html, url, source_id, "HTML"),
                    <<"newspaper_scraper", "beautifulsoup_scraper">>)
        ELSE Raise(<<"newspaper_scraper", "beautifulsoup_scraper">>)

handle_pdf_falls_back(response, url, source_id) ==
    LET content == pdf_scraper(response.pdf)
        next == handle_html_or_article(response, url, source_id)
    IN  IF content = ErrorStr
        THEN [next EXCEPT !.calls = <<"pdf_scraper">> \o @]
        ELSE Return(build_document(content, url, source_id, "PDF"),
                    <<"pdf_scraper">>)

handle_pdf(response, url, source_id) ==
    LET content == pdf_scraper(response.pdf)
    IN  IF content = ErrorStr
        THEN Raise(<<"pdf_scraper">>)
        ELSE Return(build_document(content, url, source_id, "PDF"),
                    <<"pdf_scraper">>)

fetch_content(url, response) ==
    IF fetch_url(response)
    THEN Raise(<<"fetch_url">>)
    ELSE LET source_id == hash_url(url)
             r == IF response.content_type \in PdfContentTypes
                  THEN handle_pdf(response, url, source_id)
                  ELSE handle_html_or_article(response, url, source_id)
         IN  [r EXCEPT !.calls = <<"fetch_url">> \o @]

-----------------------------------------------------------------------------
(* web_scrapping.py, the earlier revision of the extractor: no length      *)
(* threshold, and fetch_content returns the text itself.                   *)

ReturnText(text, scrapper) ==
    [raised |-> FALSE, text |-> text, scrapper |-> scrapper]
RaiseException == [raised |-> TRUE, text |-> <<>>, scrapper |-> "none"]

newspaper_scrapper_keeps_whitespace(article) ==
    IF article.throws THEN ErrorStr ELSE article.text

newspaper_scrapper(article) ==
    IF article.throws THEN ErrorStr ELSE strip(article.text)

beautifulsoup_scrapper(html) ==
    IF html.throws THEN ErrorStr ELSE html.text

pdf_scrapper(pdf) ==
    IF pdf.throws THEN ErrorStr ELSE pdf.text

\* fetch_content of web_scrapping.py
scrapping_fetch_content(url, response) ==
    IF response.status # "200"
    THEN RaiseException
    ELSE IF response.content_type \in PdfContentTypes
    THEN LET content == pdf_scrapper(response.pdf)
         IN  IF content # ErrorStr
             THEN ReturnText(content, "pdf_scrapper")
             ELSE RaiseException
    ELSE LET article == newspaper_scrapper(response.article)
             html == beautifulsoup_scrapper(response.html)
         IN  IF article # ErrorStr
             THEN ReturnText(article, "newspaper_scrapper")
             ELSE IF html # ErrorStr
             THEN ReturnText(html, "beautifulsoup_scrapper")
             ELSE RaiseException

-----------------------------------------------------------------------------
(* chunker.py *)

\* RecursiveCharacterTextSplitter(chunk_size, chunk_overlap, length_function=len,
\* is_separator_regex=False): the separators are the splitter's defaults, kept
\* at the start of the piece that follows them, and every chunk is stripped.
separators == <<"\n\n", "\n", " ", "">>

\* The number of line feeds that end right before position i
RunBefore(text, i) ==
    Least({d \in 0..(i - 1) : d = i - 1 \/ text[i - 1 - d] # "\n"})

\* re.split: where the matches of a separator start, leftmost first and not
\* overlapping
MatchStarts(text, separator) ==
    IF separator = "\n\n"
    THEN {i \in 1..(Len(text) - 1) :
             /\ text[i] = "\n"
             /\ text[i + 1] = "\n"
             /\ RunBefore(text, i) % 2 = 0}
    ELSE {i \in 1..Len(text) : text[i] = separator}

RECURSIVE Flatten(_)
Flatten(pieces) ==
    IF pieces = <<>> THEN <<>> ELSE Head(pieces) \o Flatten(Tail(pieces))

\* _split_text_with_regex(text, separator, keep_separator=True), separator # ""
split_text_with_regex(text, separator) ==
    LET found == MatchStarts(text, separator)
        IsStart(i) == i \in found
        starts == SelectSeq([i \in 1..Len(text) |-> i], IsStart)
        first == IF starts = <<>> THEN text ELSE SubSeq(text, 1, starts[1] - 1)
        until(j) == IF j = Len(starts) THEN Len(text) ELSE starts[j + 1] - 1
        rest == [j \in 1..Len(starts) |-> SubSeq(text, starts[j], until(j))]
        NonEmpty(piece) == piece # <<>>
    IN  SelectSeq(<<first>> \o rest, NonEmpty)

\* Number of characters of the pieces a..b
Total(splits, a, b) == Len(Flatten(SubSeq(splits, a, b)))

\* _join_docs(docs, ""): the pieces joined and stripped; <<>> stands for None
join_docs(current_doc) == strip(Flatten(current_doc))

\* _merge_splits: the while loop that drops pieces from the front of
\* current_doc until what is left fits the overlap and leaves room for the
\* next piece.  current_doc is the pieces a..j-1 and the next piece is j; the
\* result is the index of the first piece that is kept.
RECURSIVE pop_splits(_, _, _)
pop_splits(splits, a, j) ==
    LET total == Total(splits, a, j - 1)
    IN  IF \/ total > chunk_overlap
           \/ total + Len(splits[j]) > chunk_size /\ total > 0
        THEN pop_splits(splits, a + 1, j)
        ELSE a

\* _merge_splits(splits, ""): the for loop from piece j on, current_doc being
\* the pieces a..j-1
RECURSIVE merge_loop(_, _, _)
merge_loop(splits, a, j) ==
    LET current_doc == SubSeq(splits, a, j - 1)
        doc == join_docs(current_doc)
        joined == IF doc = <<>> THEN <<>> ELSE <<doc>>
    IN  IF j > Len(splits) THEN joined
        ELSE IF /\ Total(splits, a, j - 1) + Len(splits[j]) > chunk_size
                /\ current_doc # <<>>
        THEN joined \o merge_loop(splits, pop_splits(splits, a, j), j + 1)
        ELSE merge_loop(splits, a, j + 1)

merge_splits(splits) == merge_loop(splits, 1, 1)

Ceil(a, b) == (a + b - 1) \div b

\* _split_text(text, [""]) : the text is split into its characters and
\* _merge_splits joins them again, which leaves windows of chunk_size
\* characters, each starting chunk_size - chunk_overlap after the one before.
split_characters(text) ==
    LET n == Len(text)
        step == chunk_size - chunk_overlap
        count == IF n <= chunk_size THEN 1 ELSE 1 + Ceil(n - chunk_size, step)
        last(j) == IF step * (j - 1) + chunk_size < n
                   THEN step * (j - 1) + chunk_size ELSE n
        pieces == [j \in 1..count |->
                      strip(SubSeq(text, step * (j - 1) + 1, last(j)))]
        NonEmpty(piece) == piece # <<>>
    IN  SelectSeq(pieces, NonEmpty)

RECURSIVE _split_text(_, _)
RECURSIVE split_loop(_, _, _, _)

\* _split_text: the loop over the pieces, from piece j on; the pieces from
\* `from` to j - 1 are _good_splits.  A piece of chunk_size characters or more
\* is split again on the separators that are left.
split_loop(splits, j, from, new_separators) ==
    IF j > Len(splits)
    THEN merge_splits(SubSeq(splits, from, Len(splits)))
    ELSE IF Len(splits[j]) < chunk_size
    THEN split_loop(splits, j + 1, from, new_separators)
    ELSE merge_splits(SubSeq(splits, from, j - 1))
             \o _split_text(splits[j], new_separators)
             \o split_loop(splits, j + 1, j + 1, new_separators)

\* _split_text(text, separators): the first separator found in the text is
\* the one it is split on.
_split_text(text, seps) ==
    LET Found(j) == seps[j] = "" \/ MatchStarts(text, seps[j]) # {}
        i == Least({j \in 1..Len(seps) : Found(j)})
    IN  IF seps[i] = "" THEN split_characters(text)
        ELSE split_loop(split_text_with_regex(text, seps[i]), 1, 1,
                        SubSeq(seps, i + 1, Len(seps)))

split_text(text) == _split_text(text, separators)

\* split_documents for one document: every chunk carries the document's metadata.
split_document(document) ==
    LET texts == split_text(document.page_content)
    IN  [j \in 1..Len(texts) |->
            [page_content |-> texts[j], metadata |-> document.metadata]]

RECURSIVE chunk_document(_)
chunk_document(documents) ==
    IF documents = <<>> THEN <<>>
    ELSE split_document(Head(documents)) \o chunk_document(Tail(documents))

chunk_id_keeps_whitespace(chunk) ==
    sha256(<<chunk.metadata.source_id, "-">> \o chunk.page_content)

chunk_id_ignores_source(chunk) ==
    sha256(<<"", "-">> \o strip(chunk.page_content))

\* f"{source_id}-{page_content}", hashed
chunk_id(chunk) ==
    sha256(<<chunk.metadata.source_id, "-">> \o strip(chunk.page_content))

calculate_chunk_ids(chunks) ==
    [j \in 1..Len(chunks) |->
        [page_content |-> chunks[j].page_content,
         metadata |-> [source |-> chunks[j].metadata.source,
                       source_id |-> chunks[j].metadata.source_id,
                       type |-> chunks[j].metadata.type,
                       id |-> chunk_id(chunks[j])]]]

-----------------------------------------------------------------------------
(* ingest.py and fetch_rss.py: the store and the index *)

Range(s) == {s[j] : j \in 1..Len(s)}
Ids(chunks) == {chunks[j].metadata.id : j \in 1..Len(chunks)}

get_every_url(con) == [j \in 1..Len(con) |-> con[j].url]

\* chromadb validates the ids of one upsert: a repeated id is a
\* DuplicateIDError ("Expected IDs to be unique")
DistinctIds(chunks) ==
    \A i \in 1..Len(chunks) : \A j \in 1..Len(chunks) :
        chunks[i].metadata.id = chunks[j].metadata.id => i = j

\* SELECT url, published FROM urls WHERE ingested = 0
get_pending_urls(con) ==
    LET IsPending(row) == row.ingested = 0
        rows == SelectSeq(con, IsPending)
    IN  [j \in 1..Len(rows) |-> rows[j].url]

\* the UPDATE without con.commit()
mark_urls_without_commit(con, marked) == con

mark_every_pending_url(con, marked) ==
    [j \in 1..Len(con) |-> [con[j] EXCEPT !.ingested = 1]]

\* UPDATE urls SET ingested = 1 WHERE ingested = 0, once for every marked url
mark_urls_where_pending(con, marked) ==
    IF marked = <<>> THEN con
    ELSE [j \in 1..Len(con) |-> [con[j] EXCEPT !.ingested = 1]]

\* UPDATE urls SET ingested = 1 WHERE url = ?
mark_urls_as_ingested(con, marked) ==
    [j \in 1..Len(con) |->
        IF con[j].url \in Range(marked)
        THEN [con[j] EXCEPT !.ingested = 1] ELSE con[j]]

save_item_or_replace(con, url) ==
    LET IsOther(row) == row.url # url
    IN  Append(SelectSeq(con, IsOther), [url |-> url, ingested |-> 0])

\* INSERT INTO urls(url, ...): a second insert of a url is an IntegrityError,
\* which save_item swallows.
save_item(con, url) ==
    IF \E j \in 1..Len(con) : con[j].url = url
    THEN con
    ELSE Append(con, [url |-> url, ingested |-> 0])

\* INSERT OR REPLACE INTO feeds(name, url): name is the primary key
add_feed(rows, name, url) ==
    {row \in rows : row.name # name} \cup {[name |-> name, url |-> url]}

\* DELETE FROM feeds WHERE name = ?
delete_feed(rows, name) == {row \in rows : row.name # name}

\* a batch with one id in the index is taken for a batch already merged
filter_all_or_nothing(db_ids, chunks) ==
    IF Ids(calculate_chunk_ids(chunks)) \cap db_ids # {} THEN <<>>
    ELSE calculate_chunk_ids(chunks)

filter_keeps_every_chunk(db_ids, chunks) == calculate_chunk_ids(chunks)

filter_new_chunks(db_ids, chunks) ==
    LET with_ids == calculate_chunk_ids(chunks)
        IsNew(chunk) == chunk.metadata.id \notin db_ids
    IN  SelectSeq(with_ids, IsNew)

\* db.add_documents(chunks) without ids: the collection draws fresh ones.
add_chunks_without_ids(db_ids, chunks) ==
    db_ids \cup {<<"uuid", Cardinality(db_ids) + j>> : j \in 1..Len(chunks)}

add_chunks_keeps_first_only(db_ids, chunks) ==
    db_ids \cup {chunks[j].metadata.id : j \in 1..Len(chunks) \cap {1}}

\* db.add_documents(chunks, ids=new_chunk_ids) when it returns
add_chunks_to_chroma(db_ids, chunks) == db_ids \cup Ids(chunks)

process_url_marks_before_fetch(acc, url, response) ==
    LET r == fetch_content(url, response)
    IN  [docs |-> IF r.raised THEN acc.docs ELSE Append(acc.docs, r.doc),
         ingested_urls |-> Append(acc.ingested_urls, url)]

\* One turn of the loop of process_urls
process_url(acc, url, response) ==
    LET r == fetch_content(url, response)
    IN  IF r.raised THEN acc
        ELSE [docs |-> Append(acc.docs, r.doc),
              ingested_urls |-> Append(acc.ingested_urls, url)]

-----------------------------------------------------------------------------
(* What the web answers in the pipeline runs: one environment per way      *)
(* fetch_content can end.                                                  *)

Unreachable(status) ==
    [status |-> status, content_type |-> "", pdf |-> Throws,
     article |-> Throws, html |-> Throws]

Page(content_type, pdf, article, html) ==
    [status |-> "200", content_type |-> content_type, pdf |-> pdf,
     article |-> article, html |-> html]

PipelineWebs ==
    { Unreachable("timeout"), Unreachable("404"),
      Unreachable("connection_error"),
      Page("application/pdf", Yields(Text(5, MinLength + 20)),
           Yields(Text(0, MinLength)), Yields(Text(3, MinLength))),
      Page("text/html; charset=utf-8", Throws,
           Yields(Text(0, MinLength)), Yields(Text(3, MinLength))),
      Page("text/html; charset=utf-8", Throws,
           Yields(Text(0, MinLength - 1)), Throws) }

-----------------------------------------------------------------------------
(* State machine *)

NotCalled == Return(NoDoc, <<>>)
NotCalledScrapping == [raised |-> FALSE, text |-> <<>>, scrapper |-> "none"]
NoOther == [pc |-> "idle", existing_ids |-> {}, new_chunks |-> <<>>,
            submitted |-> <<>>]
NotMerged == [done |-> FALSE, ids |-> {}]

HarnessIdle ==
    /\ web = Unreachable("timeout")
    /\ arg_url = UrlNames[1]
    /\ ret = NotCalled
    /\ merged = NotMerged
    /\ id_calls = <<>>
    /\ feeds = {}
    /\ other = NoOther
    /\ ret_scrapping = NotCalledScrapping

PipelineInit ==
    /\ db_file = FALSE
    /\ urls = <<>>
    /\ chroma = {}
    /\ pc = "idle"
    /\ pending = <<>>
    /\ k = 1
    /\ docs = <<>>
    /\ ingested_urls = <<>>
    /\ chunks_with_ids = <<>>
    /\ existing_ids = {}
    /\ new_chunks = <<>>
    /\ submitted = <<>>
    /\ log = <<>>
    /\ merge = "not_started"
    /\ outcome = "none"
    /\ runs = 0
    /\ inserted = {}

Init == PipelineInit /\ HarnessIdle

\* fetch_rss.py __main__: init_db() when the file does not exist
InitDb ==
    /\ ~db_file
    /\ db_file' = TRUE
    /\ UNCHANGED <<urls, chroma, pc, pending, k, docs, ingested_urls,
                   chunks_with_ids, existing_ids, new_chunks, submitted, log,
                   merge, outcome, runs, web, arg_url, ret, merged,
                   id_calls, feeds, other, ret_scrapping,
                   inserted>>

\* fetch_rss.py save_item, called by fetch_all for every entry of every feed.
\* Urls differ only by name: the entry is one already stored or the first
\* name not stored yet.
SaveItem ==
    /\ db_file
    /\ \E j \in 1..NumUrls :
          /\ j <= Len(urls) + 1
          /\ urls' = save_item(urls, UrlNames[j])
          /\ inserted' = IF pc # "idle" /\ Len(urls') > Len(urls)
                         THEN inserted \cup {UrlNames[j]} ELSE inserted
    /\ UNCHANGED <<db_file, chroma, pc, pending, k, docs, ingested_urls,
                   chunks_with_ids, existing_ids, new_chunks, submitted, log,
                   merge, outcome, runs, web, arg_url, ret, merged,
                   id_calls, feeds, other, ret_scrapping>>

FeedNames == {"f1"}
FeedUrls == {"r1", "r2"}

\* fetch_rss.py __main__ --add NAME URL
AddFeed ==
    /\ db_file
    /\ \E name \in FeedNames : \E url \in FeedUrls :
          feeds' = add_feed(feeds, name, url)
    /\ UNCHANGED <<db_file, urls, chroma, pc, pending, k, docs, ingested_urls,
                   chunks_with_ids, existing_ids, new_chunks, submitted, log,
                   merge, outcome, runs, web, arg_url, ret, merged, id_calls, other,
                   ret_scrapping,
                   inserted>>

\* fetch_rss.py __main__ --delete NAME
DeleteFeed ==
    /\ db_file
    /\ \E name \in FeedNames : feeds' = delete_feed(feeds, name)
    /\ UNCHANGED <<db_file, urls, chroma, pc, pending, k, docs, ingested_urls,
                   chunks_with_ids, existing_ids, new_chunks, submitted, log,
                   merge, outcome, runs, web, arg_url, ret, merged, id_calls, other,
                   ret_scrapping,
                   inserted>>

\* run_pipeline up to the call of process_urls
RunPipeline ==
    /\ pc = "idle"
    /\ runs < MaxRuns
    /\ runs' = runs + 1
    /\ pending' = IF db_file THEN get_pending_urls(urls) ELSE <<>>
    /\ k' = 1
    /\ docs' = <<>>
    /\ ingested_urls' = <<>>
    /\ chunks_with_ids' = <<>>
    /\ existing_ids' = {}
    /\ new_chunks' = <<>>
    /\ submitted' = <<>>
    /\ log' = <<>>
    /\ merge' = "not_started"
    /\ IF ~db_file
       THEN pc' = "idle" /\ outcome' = "no_db"
       ELSE IF pending' = <<>>
       THEN pc' = "idle" /\ outcome' = "no_urls"
       ELSE pc' = "process_urls" /\ outcome' = "running"
    /\ inserted' = {}
    /\ UNCHANGED <<db_file, urls, chroma, web, arg_url, ret, merged,
                   id_calls, feeds, other, ret_scrapping>>

\* process_urls: one turn of the loop, the web answering with one of `webs`
ProcessUrlIn(webs) ==
    /\ pc = "process_urls"
    /\ k <= Len(pending)
    /\ \E response \in webs :
          LET url == pending[k]
              r == fetch_content(url, response)
              acc == process_url([docs |-> docs,
                                  ingested_urls |-> ingested_urls],
                                 url, response)
          IN  /\ docs' = acc.docs
              /\ ingested_urls' = acc.ingested_urls
              /\ log' = Append(log, [url |-> url, status |-> response.status,
                                     raised |-> r.raised, calls |-> r.calls,
                                     doc |-> r.doc])
    /\ k' = k + 1
    /\ UNCHANGED <<db_file, urls, chroma, pc, pending, chunks_with_ids,
                   existing_ids, new_chunks, submitted, merge, outcome, runs,
                   web, arg_url, ret, merged,
                   id_calls, feeds, other, ret_scrapping,
                   inserted>>

\* run_pipeline without its `if not docs: return`
ProcessUrlsDoneGoesOn ==
    /\ pc = "process_urls"
    /\ k > Len(pending)
    /\ pc' = "filter_new_chunks"
    /\ UNCHANGED <<db_file, urls, chroma, pending, k, docs, ingested_urls,
                   chunks_with_ids, existing_ids, new_chunks, submitted, log,
                   merge, outcome, runs, web, arg_url, ret, merged,
                   id_calls, feeds, other, ret_scrapping, inserted>>

\* process_urls returns; run_pipeline returns when no document was fetched
ProcessUrlsDone ==
    /\ pc = "process_urls"
    /\ k > Len(pending)
    /\ IF docs = <<>>
       THEN pc' = "idle" /\ outcome' = "no_docs"
       ELSE pc' = "filter_new_chunks" /\ outcome' = outcome
    /\ UNCHANGED <<db_file, urls, chroma, pending, k, docs, ingested_urls,
                   chunks_with_ids, existing_ids, new_chunks, submitted, log,
                   merge, runs, web, arg_url, ret, merged,
                   id_calls, feeds, other, ret_scrapping,
                   inserted>>

\* initialize_chroma_db, chunk_document and filter_new_chunks
FilterNewChunks ==
    /\ pc = "filter_new_chunks"
    /\ chunks_with_ids' = calculate_chunk_ids(chunk_document(docs))
    /\ existing_ids' = chroma
    /\ new_chunks' = filter_new_chunks(chroma, chunk_document(docs))
    /\ pc' = "add_chunks_to_chroma"
    /\ UNCHANGED <<db_file, urls, chroma, pending, k, docs, ingested_urls,
                   submitted, log, merge, outcome, runs, web, arg_url, ret, merged,
                   id_calls, feeds, other, ret_scrapping,
                   inserted>>

\* initialize_chroma_db (the embedding model does not load) or db.get raises:
\* the exception leaves run_pipeline
ChromaReadRaises ==
    /\ pc = "filter_new_chunks"
    /\ merge' = "raised"
    /\ pc' = "idle"
    /\ outcome' = "raised"
    /\ UNCHANGED <<db_file, urls, chroma, pending, k, docs, ingested_urls,
                   chunks_with_ids, existing_ids, new_chunks, submitted, log,
                   runs, web, arg_url, ret, merged,
                   id_calls, feeds, other, ret_scrapping,
                   inserted>>

\* add_chunks_to_chroma returns; db.add_documents upserts the batch, which
\* the collection accepts when no id is in it twice
AddChunksToChroma ==
    /\ pc = "add_chunks_to_chroma"
    /\ DistinctIds(new_chunks)
    /\ IF new_chunks # <<>>
       THEN /\ chroma' = add_chunks_to_chroma(chroma, new_chunks)
            /\ submitted' = new_chunks
       ELSE UNCHANGED <<chroma, submitted>>
    /\ merge' = "completed"
    /\ pc' = "mark_urls_as_ingested"
    /\ UNCHANGED <<db_file, urls, pending, k, docs, ingested_urls,
                   chunks_with_ids, existing_ids, new_chunks, log, outcome,
                   runs, web, arg_url, ret, merged,
                   id_calls, feeds, other, ret_scrapping,
                   inserted>>

AddRaisesButRunGoesOn ==
    /\ pc = "add_chunks_to_chroma"
    /\ new_chunks # <<>>
    /\ \E written \in 0..Len(new_chunks) :
          chroma' = add_chunks_to_chroma(chroma, SubSeq(new_chunks, 1, written))
    /\ submitted' = new_chunks
    /\ merge' = "raised"
    /\ pc' = "mark_urls_as_ingested"
    /\ UNCHANGED <<db_file, urls, pending, k, docs, ingested_urls,
                   chunks_with_ids, existing_ids, new_chunks, log, outcome,
                   runs, web, arg_url, ret, merged,
                   id_calls, feeds, other, ret_scrapping,
                   inserted>>

\* db.add_documents raises while embedding or writing, after `written` of the
\* new chunks reached the collection, or before anything is written when the
\* collection refuses the ids: the exception leaves run_pipeline
AddChunksRaises ==
    /\ pc = "add_chunks_to_chroma"
    /\ new_chunks # <<>>
    /\ \E written \in 0..Len(new_chunks) :
          /\ DistinctIds(new_chunks) \/ written = 0
          /\ chroma' = add_chunks_to_chroma(chroma,
                                            SubSeq(new_chunks, 1, written))
    /\ submitted' = new_chunks
    /\ merge' = "raised"
    /\ pc' = "idle"
    /\ outcome' = "raised"
    /\ UNCHANGED <<db_file, urls, pending, k, docs, ingested_urls,
                   chunks_with_ids, existing_ids, new_chunks, log, runs, web,
                   arg_url, ret, merged,
                   id_calls, feeds, other, ret_scrapping,
                   inserted>>

\* mark_urls_as_ingested, and run_pipeline returns
MarkUrlsAsIngested ==
    /\ pc = "mark_urls_as_ingested"
    /\ urls' = mark_urls_as_ingested(urls, ingested_urls)
    /\ pc' = "idle"
    /\ outcome' = "completed"
    /\ UNCHANGED <<db_file, chroma, pending, k, docs, ingested_urls,
                   chunks_with_ids, existing_ids, new_chunks, submitted, log,
                   merge, runs, web, arg_url, ret, merged,
                   id_calls, feeds, other, ret_scrapping,
                   inserted>>

ProcessUrl == ProcessUrlIn(PipelineWebs)

Next ==
    \/ InitDb
    \/ SaveItem
    \/ RunPipeline
    \/ ProcessUrl
    \/ ProcessUrlsDone
    \/ FilterNewChunks
    \/ ChromaReadRaises
    \/ AddChunksToChroma
    \/ AddChunksRaises
    \/ MarkUrlsAsIngested

Spec == Init /\ [][Next]_vars

-----------------------------------------------------------------------------
(* The store under the feed poller and the pipeline: feeds are added and   *)
(* deleted between and during the runs; a URL either times out or yields   *)
(* an article.                                                             *)

StoreWebs ==
    { Unreachable("timeout"),
      Page("text/html; charset=utf-8", Throws,
           Yields(Text(0, MinLength)), Yields(Text(3, MinLength))) }

ProcessUrlOfStore == ProcessUrlIn(StoreWebs)

StoreNext ==
    \/ InitDb
    \/ SaveItem
    \/ AddFeed
    \/ DeleteFeed
    \/ RunPipeline
    \/ ProcessUrlOfStore
    \/ ProcessUrlsDone
    \/ FilterNewChunks
    \/ ChromaReadRaises
    \/ AddChunksToChroma
    \/ AddChunksRaises
    \/ MarkUrlsAsIngested

SpecStore == Init /\ [][StoreNext]_vars

-----------------------------------------------------------------------------
(* The pipeline run again and again: a run that can start does start, the   *)
(* loop of process_urls goes through the pending URLs, the insertion ends   *)
(* one way or the other and the marking that follows it takes place, as     *)
(* run_pipeline is sequential code.  Nothing is assumed of the feed poller. *)

RetryNext ==
    \/ InitDb
    \/ SaveItem
    \/ RunPipeline
    \/ ProcessUrlOfStore
    \/ ProcessUrlsDone
    \/ FilterNewChunks
    \/ ChromaReadRaises
    \/ AddChunksToChroma
    \/ AddChunksRaises
    \/ MarkUrlsAsIngested

SpecRetry ==
    /\ Init
    /\ [][RetryNext]_vars
    /\ WF_vars(RunPipeline)
    /\ WF_vars(ProcessUrlOfStore)
    /\ WF_vars(ProcessUrlsDone)
    /\ WF_vars(AddChunksToChroma \/ AddChunksRaises)
    /\ WF_vars(MarkUrlsAsIngested)

-----------------------------------------------------------------------------
(* The extractor alone: fetch_content called once, on any url and any      *)
(* answer of the web.                                                      *)

ExtractInit ==
    /\ PipelineInit
    /\ web \in Webs
    /\ arg_url \in Urls
    /\ ret = NotCalled
    /\ merged = NotMerged
    /\ id_calls = <<>>
    /\ feeds = {}
    /\ other = NoOther
    /\ ret_scrapping = NotCalledScrapping

FetchContent ==
    /\ ret = NotCalled
    /\ ret' = fetch_content(arg_url, web)
    /\ UNCHANGED <<db_file, urls, chroma, pc, pending, k, docs, ingested_urls,
                   chunks_with_ids, existing_ids, new_chunks, submitted, log,
                   merge, outcome, runs, web, arg_url, merged,
                   id_calls, feeds, other, ret_scrapping,
                   inserted>>

ExtractNext == FetchContent

SpecExtract == ExtractInit /\ [][ExtractNext]_vars

\* Both revisions of the extractor called once each on the same URL and the
\* same answer of the web.
FetchContentOfBoth ==
    /\ ret = NotCalled
    /\ ret_scrapping = NotCalledScrapping
    /\ ret' = fetch_content(arg_url, web)
    /\ ret_scrapping' = scrapping_fetch_content(arg_url, web)
    /\ UNCHANGED <<db_file, urls, chroma, pc, pending, k, docs, ingested_urls,
                   chunks_with_ids, existing_ids, new_chunks, submitted, log,
                   merge, outcome, runs, web, arg_url, merged,
                   id_calls, feeds, other, inserted>>

RevisionsNext == FetchContentOfBoth

SpecRevisions == ExtractInit /\ [][RevisionsNext]_vars

-----------------------------------------------------------------------------
(* The merge alone: run_pipeline from the return of process_urls, on any   *)
(* batch of documents and any index, and the same batch merged again.      *)

\* Three paragraphs, as long together as the longest text without whitespace
Paragraphs ==
    LET n == chunk_size - chunk_overlap
    IN  Text(0, n - 2) \o Newlines(2) \o Upper(0, n - 2) \o Newlines(2)
            \o Text(4, n)

\* The same paragraph twice
TwoAlike ==
    LET n == chunk_size - chunk_overlap
    IN  Text(0, n) \o Newlines(2) \o Text(0, n)

MergeTexts ==
    { Text(0, 2 * chunk_size + 2 * chunk_overlap),
      Text(0, chunk_size + chunk_overlap),
      Paragraphs,
      TwoAlike,
      Blank(3) \o Text(1, MinLength) \o Newlines(2) }

ArticleOf(url, text) == build_document(text, url, hash_url(url), "Article")

MergeBatches ==
    LET u1 == UrlNames[1]
        u2 == UrlNames[2]
    IN  {<<ArticleOf(u, t)>> : u \in {u1, u2}, t \in MergeTexts}
        \cup {<<ArticleOf(u1, t1), ArticleOf(u2, t2)>> :
                 t1 \in MergeTexts, t2 \in MergeTexts}

LogEntryOf(doc) ==
    [url |-> doc.metadata.source, status |-> "200", raised |-> FALSE,
     calls |-> <<"fetch_url", "newspaper_scraper">>, doc |-> doc]

MergeInit ==
    /\ HarnessIdle
    /\ db_file = TRUE
    /\ docs \in MergeBatches
    /\ pending = [j \in 1..Len(docs) |-> docs[j].metadata.source]
    /\ urls = [j \in 1..Len(docs) |-> [url |-> pending[j], ingested |-> 0]]
    /\ ingested_urls = pending
    /\ log = [j \in 1..Len(docs) |-> LogEntryOf(docs[j])]
    /\ k = Len(docs) + 1
    /\ chroma \in SUBSET Ids(calculate_chunk_ids(chunk_document(docs)))
    /\ pc = "filter_new_chunks"
    /\ chunks_with_ids = <<>>
    /\ existing_ids = {}
    /\ new_chunks = <<>>
    /\ submitted = <<>>
    /\ merge = "not_started"
    /\ outcome = "running"
    /\ runs = 1
    /\ inserted = {}

\* The same documents are chunked, filtered and added again.
MergeAgain ==
    /\ \/ pc = "mark_urls_as_ingested"
       \/ pc = "idle" /\ outcome = "raised"
    /\ runs < MaxRuns
    /\ runs' = runs + 1
    /\ merged' = IF merge = "completed"
                 THEN [done |-> TRUE, ids |-> chroma] ELSE merged
    /\ pc' = "filter_new_chunks"
    /\ chunks_with_ids' = <<>>
    /\ existing_ids' = {}
    /\ new_chunks' = <<>>
    /\ submitted' = <<>>
    /\ merge' = "not_started"
    /\ outcome' = "running"
    /\ UNCHANGED <<db_file, urls, chroma, pending, k, docs, ingested_urls,
                   log, web, arg_url, ret, id_calls, feeds, other, ret_scrapping,
                   inserted>>

MergeNext ==
    \/ FilterNewChunks
    \/ AddChunksToChroma
    \/ AddChunksRaises
    \/ MergeAgain

SpecMerge == MergeInit /\ [][MergeNext]_vars

-----------------------------------------------------------------------------
(* The chunk ids alone: filter_new_chunks called twice, each time on any   *)
(* batch of chunks and on an index that holds none or all of their ids.    *)

IdTexts ==
    { Text(0, 3), Blank(1) \o Text(0, 3) \o Newlines(2), Text(1, 3) }

IdChunks ==
    { [page_content |-> t,
       metadata |-> [source |-> u, source_id |-> hash_url(u), type |-> ty]] :
          t \in IdTexts, u \in {UrlNames[1], UrlNames[2]},
          ty \in {"Article", "PDF"} }

IdBatches ==
    {<<c>> : c \in IdChunks} \cup {<<c, d>> : c \in IdChunks, d \in IdChunks}

IdsInit ==
    /\ PipelineInit
    /\ web = Unreachable("timeout")
    /\ arg_url = UrlNames[1]
    /\ ret = NotCalled
    /\ merged = NotMerged
    /\ id_calls = <<>>
    /\ feeds = {}
    /\ other = NoOther
    /\ ret_scrapping = NotCalledScrapping

\* filter_new_chunks(db, chunks): calculate_chunk_ids, db.get, the selection
CalculateChunkIds ==
    /\ Len(id_calls) < 2
    /\ \E chunks \in IdBatches :
       \E db_ids \in {{}, Ids(calculate_chunk_ids(chunks))} :
          /\ chroma' = db_ids
          /\ chunks_with_ids' = calculate_chunk_ids(chunks)
          /\ existing_ids' = db_ids
          /\ new_chunks' = filter_new_chunks(db_ids, chunks)
          /\ id_calls' = Append(id_calls,
                                [chunks |-> chunks, db_ids |-> db_ids,
                                 chunks_with_ids |-> chunks_with_ids',
                                 new_chunks |-> new_chunks'])
    /\ UNCHANGED <<db_file, urls, pc, pending, k, docs, ingested_urls,
                   submitted, log, merge, outcome, runs, web, arg_url, ret,
                   merged, feeds, other, ret_scrapping,
                   inserted>>

IdsNext == CalculateChunkIds

SpecIds == IdsInit /\ [][IdsNext]_vars

-----------------------------------------------------------------------------
(* Two processes in run_pipeline at the same time, on the same store and   *)
(* index: both found the same URLs pending and fetched the same documents, *)
(* and each goes through filter_new_chunks, add_chunks_to_chroma and       *)
(* mark_urls_as_ingested at its own pace.  run_pipeline takes no lock.     *)

OverlapTexts == { Text(0, MinLength), Text(1, MinLength + 1) }

OverlapBatches ==
    {<<ArticleOf(UrlNames[1], t)>> : t \in OverlapTexts}
        \cup {<<ArticleOf(UrlNames[1], t1), ArticleOf(UrlNames[2], t2)>> :
                 t1 \in OverlapTexts, t2 \in OverlapTexts}

OverlapInit ==
    /\ web = Unreachable("timeout")
    /\ arg_url = UrlNames[1]
    /\ ret = NotCalled
    /\ merged = NotMerged
    /\ id_calls = <<>>
    /\ feeds = {}
    /\ db_file = TRUE
    /\ docs \in OverlapBatches
    /\ pending = [j \in 1..Len(docs) |-> docs[j].metadata.source]
    /\ urls = [j \in 1..Len(docs) |-> [url |-> pending[j], ingested |-> 0]]
    /\ ingested_urls = pending
    /\ log = [j \in 1..Len(docs) |-> LogEntryOf(docs[j])]
    /\ k = Len(docs) + 1
    /\ chroma \in SUBSET Ids(calculate_chunk_ids(chunk_document(docs)))
    /\ pc = "filter_new_chunks"
    /\ chunks_with_ids = <<>>
    /\ existing_ids = {}
    /\ new_chunks = <<>>
    /\ submitted = <<>>
    /\ merge = "not_started"
    /\ outcome = "running"
    /\ runs = 1
    /\ inserted = {}
    /\ other = [NoOther EXCEPT !.pc = "filter_new_chunks"]
    /\ ret_scrapping = NotCalledScrapping

\* filter_new_chunks in the second process
OtherFilterNewChunks ==
    /\ other.pc = "filter_new_chunks"
    /\ other' = [pc |-> "add_chunks_to_chroma",
                 existing_ids |-> chroma,
                 new_chunks |-> filter_new_chunks(chroma, chunk_document(docs)),
                 submitted |-> <<>>]
    /\ UNCHANGED <<db_file, urls, chroma, pc, pending, k, docs, ingested_urls,
                   chunks_with_ids, existing_ids, new_chunks, submitted, log,
                   merge, outcome, runs, web, arg_url, ret, merged, id_calls,
                   feeds, ret_scrapping,
                   inserted>>

\* add_chunks_to_chroma returns in the second process
OtherAddChunksToChroma ==
    /\ other.pc = "add_chunks_to_chroma"
    /\ DistinctIds(other.new_chunks)
    /\ chroma' = IF other.new_chunks # <<>>
                 THEN add_chunks_to_chroma(chroma, other.new_chunks)
                 ELSE chroma
    /\ other' = [other EXCEPT !.pc = "mark_urls_as_ingested",
                              !.submitted = other.new_chunks]
    /\ UNCHANGED <<db_file, urls, pc, pending, k, docs, ingested_urls,
                   chunks_with_ids, existing_ids, new_chunks, submitted, log,
                   merge, outcome, runs, web, arg_url, ret, merged, id_calls,
                   feeds, ret_scrapping,
                   inserted>>

\* mark_urls_as_ingested in the second process, which then returns
OtherMarkUrlsAsIngested ==
    /\ other.pc = "mark_urls_as_ingested"
    /\ urls' = mark_urls_as_ingested(urls, ingested_urls)
    /\ other' = [other EXCEPT !.pc = "idle"]
    /\ UNCHANGED <<db_file, chroma, pc, pending, k, docs, ingested_urls,
                   chunks_with_ids, existing_ids, new_chunks, submitted, log,
                   merge, outcome, runs, web, arg_url, ret, merged, id_calls,
                   feeds, ret_scrapping,
                   inserted>>

OverlapNext ==
    \/ FilterNewChunks
    \/ AddChunksToChroma
    \/ MarkUrlsAsIngested
    \/ OtherFilterNewChunks
    \/ OtherAddChunksToChroma
    \/ OtherMarkUrlsAsIngested

SpecOverlap == OverlapInit /\ [][OverlapNext]_vars

-----------------------------------------------------------------------------
(* Properties of the pipeline *)

IngestedFlag(url) ==
    \E j \in 1..Len(urls) : urls[j].url = url /\ urls[j].ingested = 1

FetchSucceeded(url) ==
    \E j \in 1..Len(log) : log[j].url = url /\ ~log[j].raised

FetchFailed(url) ==
    \E j \in 1..Len(log) : log[j].url = url /\ log[j].raised

RunOver == pc = "idle" /\ runs > 0

\* C1: when a run of run_pipeline is over, a URL that was pending at its start
\* is marked ingested if and only if fetch_content succeeded for it in this run
\* and the merge (filter_new_chunks, then add_chunks_to_chroma) returned
\* without raising, also when the merge inserted nothing.
C1_MarkedIffFetchedAndMerged ==
    RunOver =>
        \A url \in Range(pending) :
            IngestedFlag(url) <=> (FetchSucceeded(url) /\ merge = "completed")

\* A completed run in which every chunk was a duplicate: one URL is marked
\* although nothing was inserted, another one failed and stays unmarked.
C1_Witness ==
    /\ RunOver
    /\ outcome = "completed"
    /\ chunks_with_ids # <<>>
    /\ new_chunks = <<>>
    /\ submitted = <<>>
    /\ \E url \in Range(pending) : FetchSucceeded(url) /\ IngestedFlag(url)
    /\ \E url \in Range(pending) : FetchFailed(url) /\ ~IngestedFlag(url)

FlagChanges ==
    \E j \in 1..Len(urls) : urls'[j].ingested # urls[j].ingested

\* C4: an ingested flag changes only once every pending URL has been put
\* through fetch_content and the insertion into the index has returned; when
\* the embedding or the index write raises, run_pipeline is left with the
\* exception and no URL of the run is marked.
C4_MarkOnlyAfterMerge ==
    [][ /\ FlagChanges =>
              /\ pc = "mark_urls_as_ingested"
              /\ merge = "completed"
              /\ Len(log) = Len(pending)
        /\ merge' = "raised" =>
              /\ pc' = "idle"
              /\ outcome' = "raised"
              /\ \A j \in 1..Len(urls') :
                    urls'[j].url \in Range(pending') => urls'[j].ingested = 0
      ]_vars

\* db.add_documents raised on a batch of new chunks of fetched URLs.
C4_Witness ==
    /\ RunOver
    /\ outcome = "raised"
    /\ merge = "raised"
    /\ submitted # <<>>
    /\ ingested_urls # <<>>
    /\ \A url \in Range(ingested_urls) : ~IngestedFlag(url)

LoopOver ==
    \/ pc \in {"filter_new_chunks", "add_chunks_to_chroma",
               "mark_urls_as_ingested"}
    \/ pc = "idle" /\ outcome \in {"no_docs", "raised", "completed"}

Succeeded(entry) == ~entry.raised

\* C5: after the loop of process_urls every pending URL has been attempted, in
\* order, whatever failed before it; docs holds the documents of the URLs that
\* succeeded and ingested_urls those URLs, so no failing URL is in it.
C5_FailureDoesNotStopLoop ==
    LoopOver =>
        LET ok == SelectSeq(log, Succeeded)
        IN  /\ [j \in 1..Len(log) |-> log[j].url] = pending
            /\ docs = [j \in 1..Len(ok) |-> ok[j].doc]
            /\ ingested_urls = [j \in 1..Len(ok) |-> ok[j].url]
            /\ \A j \in 1..Len(log) :
                  log[j].raised => log[j].url \notin Range(ingested_urls)

\* The first URL of the run failed and the next one was still fetched.
C5_Witness ==
    /\ LoopOver
    /\ Len(log) >= 2
    /\ log[1].raised
    /\ ~log[2].raised
    /\ docs = <<log[2].doc>>
    /\ ingested_urls = <<log[2].url>>

\* C6: a URL whose network fetch failed (transport error, timeout, non-2xx
\* status) made fetch_content raise with no strategy attempted, and its
\* ingested flag is still 0, during the run and when the run is over.
C6_FetchFailureIsFatal ==
    \A j \in 1..Len(log) :
        log[j].status # "200" =>
            /\ log[j].raised
            /\ log[j].calls = <<"fetch_url">>
            /\ ~IngestedFlag(log[j].url)

\* A run that marked one URL is over and another URL of it timed out.
C6_Witness ==
    /\ RunOver
    /\ outcome = "completed"
    /\ \E j \in 1..Len(log) : log[j].status = "timeout"
    /\ \E url \in Range(pending) : IngestedFlag(url)

\* The URLs of the rows whose ingested flag is 0
Unmarked == {urls[j].url : j \in {i \in 1..Len(urls) : urls[i].ingested = 0}}

\* C16: a run works on the URLs whose flag is 0 when it starts, and every URL
\* it hands to fetch_content is one of them and has its flag still at 0; so a
\* URL whose flag is 1 when a run starts is not fetched in that run, nor, as
\* the flag stays, in a later one.
C16_OnlyPendingAreExtracted ==
    [][ /\ runs' # runs => Range(pending') = Unmarked
        /\ Len(log') > Len(log) =>
              /\ log'[Len(log')].url \in Range(pending)
              /\ log'[Len(log')].url \in Unmarked
      ]_vars

\* The second run fetches a URL while the URL the first run marked is
\* neither pending nor fetched.
C16_Witness ==
    /\ runs = 2
    /\ log # <<>>
    /\ \E j \in 1..Len(urls) :
          /\ urls[j].ingested = 1
          /\ urls[j].url \notin Range(pending)
          /\ ~FetchSucceeded(urls[j].url)
          /\ ~FetchFailed(urls[j].url)

Attempted_(url) == FetchSucceeded(url) \/ FetchFailed(url)

\* C17: a URL whose fetch_content raised in a run has its flag still at 0 when
\* the run is over, and the next run, when there is one, calls fetch_content
\* for it again; a URL whose fetch_content returned in a run whose merge
\* completed is marked ingested in the end.
C17_FailedUrlIsRetried ==
    /\ \A url \in Urls : \A r \in 1..(MaxRuns - 1) :
          (RunOver /\ runs = r /\ FetchFailed(url))
              ~> (runs = r + 1 /\ Attempted_(url))
    /\ \A url \in Urls :
          (FetchSucceeded(url) /\ merge = "completed") ~> IngestedFlag(url)
    /\ [](\A url \in Urls : (RunOver /\ FetchFailed(url)) => ~IngestedFlag(url))

\* The first run marked the second URL of the table and not the first, whose
\* fetch_content raised; the second run fetched the first URL again, its
\* merge completed, and the URL is marked.
C17_Witness ==
    /\ runs = 2
    /\ RunOver
    /\ outcome = "completed"
    /\ Len(urls) = 2
    /\ urls[1].ingested = 1
    /\ urls[2].ingested = 1
    /\ pending = <<urls[1].url>>
    /\ FetchSucceeded(urls[1].url)

\* A run whose candidates are in part in the index already: chunks of URLs
\* that are still unmarked were written by a run whose insertion raised.
Recovering == Ids(chunks_with_ids) \cap existing_ids # {}

\* C18: when db.add_documents raised after writing some of the new chunks,
\* the URLs of the batch are unmarked and the next run works on them again;
\* a run that finds part of its candidates in the index hands db.add_documents
\* the candidates whose ids are missing and no other, and when it completes
\* every candidate id is in the index, none was written a second time and
\* the URLs it fetched are marked.
C18_RecoveryAfterPartialWrite ==
    /\ [][ (runs' # runs /\ merge = "raised" /\ submitted # <<>>) =>
              Range(ingested_urls) \subseteq Range(pending') ]_vars
    /\ [](Recovering =>
            /\ pc = "add_chunks_to_chroma" =>
                  Ids(new_chunks) = Ids(chunks_with_ids) \ existing_ids
            /\ merge = "completed" =>
                  /\ Ids(submitted) = Ids(chunks_with_ids) \ existing_ids
                  /\ DistinctIds(submitted)
                  /\ chroma = existing_ids \cup Ids(chunks_with_ids)
            /\ (RunOver /\ outcome = "completed") =>
                  \A url \in Range(ingested_urls) : IngestedFlag(url))

\* The second run found one of its two candidates in the index, inserted the
\* other one and marked both URLs.
C18_Witness ==
    /\ runs = 2
    /\ RunOver
    /\ outcome = "completed"
    /\ Len(chunks_with_ids) = 2
    /\ Cardinality(existing_ids) = 1
    /\ Recovering
    /\ Len(submitted) = 1
    /\ Cardinality(chroma) = 2
    /\ \A url \in Range(pending) : IngestedFlag(url)

\* C15: whatever save_item, the feed commands and the pipeline do, no row of
\* table urls is deleted and no ingested flag goes from 1 back to 0; save_item
\* for a URL that has a row leaves the table, and so the flag of the row, as
\* it is.
C15_RecordsAreKept ==
    /\ [][ \A j \in 1..Len(urls) :
              /\ j <= Len(urls')
              /\ urls'[j].url = urls[j].url
              /\ urls[j].ingested = 1 => urls'[j].ingested = 1 ]_vars
    /\ [](\A row \in Range(urls) : save_item(urls, row.url) = urls)

\* After a run marked the first URL a second URL was saved and failed in the
\* next run, and a feed was added.
C15_Witness ==
    /\ Len(urls) = 2
    /\ urls[1].ingested = 1
    /\ urls[2].ingested = 0
    /\ RunOver
    /\ runs = 2
    /\ outcome = "no_docs"
    /\ feeds # {}

-----------------------------------------------------------------------------
(* Properties of the merge *)

\* The candidates whose id is not among the ids read from the index.
Absent ==
    LET IsAbsent(chunk) == chunk.metadata.id \notin existing_ids
    IN  SelectSeq(chunks_with_ids, IsAbsent)

\* C2: once the chunks of a batch of documents have been merged, putting the
\* same documents through chunk_document, filter_new_chunks and
\* add_chunks_to_chroma again selects no new chunk, hands nothing to the
\* index and leaves the ids of the index as they were.
C2_SecondPassSelectsNothing ==
    merged.done =>
        /\ chroma = merged.ids
        /\ new_chunks = <<>>
        /\ submitted = <<>>
        /\ pc \in {"add_chunks_to_chroma", "mark_urls_as_ingested"} =>
              /\ chunks_with_ids # <<>>
              /\ Ids(chunks_with_ids) \subseteq existing_ids

\* The second pass over a batch of five chunks has returned.
C2_Witness ==
    /\ merged.done
    /\ pc = "mark_urls_as_ingested"
    /\ merge = "completed"
    /\ Len(chunks_with_ids) = 5
    /\ Cardinality(chroma) = 5
    /\ new_chunks = <<>>

\* C3: the chunks selected by filter_new_chunks, and handed to
\* db.add_documents, are the candidates whose id is not in the set of ids read
\* from the index at the start of the merge, in the order of the candidates;
\* when the insertion returns the index holds the ids read and theirs.
C3_OnlyAbsentIdsSubmitted ==
    /\ pc = "add_chunks_to_chroma" => new_chunks = Absent
    /\ merge \in {"completed", "raised"} => submitted = Absent
    /\ merge = "completed" => chroma = existing_ids \cup Ids(Absent)
    /\ \A j \in 1..Len(submitted) :
          submitted[j].metadata.id \notin existing_ids

\* Five candidates, two of their ids in the index: three insertions.
C3_Witness ==
    /\ merge = "completed"
    /\ Len(chunks_with_ids) = 5
    /\ Cardinality(existing_ids) = 2
    /\ Len(submitted) = 3
    /\ Cardinality(chroma) = 5

SameText(c, d) == strip(c.page_content) = strip(d.page_content)

\* A candidate whose text is also the text of a chunk of another source, and
\* that other chunk's id was read from the index.
TwinIndexed(c) ==
    \E d \in Range(chunks_with_ids) :
        /\ d.metadata.id \in existing_ids
        /\ d.metadata.source # c.metadata.source
        /\ SameText(c, d)

\* C11: two chunks of different source URLs never get the same id from
\* calculate_chunk_ids, also when their texts are the same; so a chunk whose
\* text is already in the index under another URL, and whose own id is not,
\* is selected by filter_new_chunks as new.
C11_IdsAreSourceScoped ==
    /\ \A c \in Range(chunks_with_ids) : \A d \in Range(chunks_with_ids) :
          c.metadata.source # d.metadata.source =>
              c.metadata.id # d.metadata.id
    /\ pc = "add_chunks_to_chroma" =>
          \A c \in Range(chunks_with_ids) :
              (TwinIndexed(c) /\ c.metadata.id \notin existing_ids) =>
                  c \in Range(new_chunks)

\* The same text under two URLs; the index held the chunks of the first URL
\* only, and every chunk of the second was selected.
C11_Witness ==
    /\ pc = "add_chunks_to_chroma"
    /\ Len(docs) = 2
    /\ docs[1].page_content = docs[2].page_content
    /\ existing_ids # {}
    /\ new_chunks # <<>>
    /\ \A c \in Range(chunks_with_ids) :
          IF c.metadata.source = docs[1].metadata.source
          THEN c.metadata.id \in existing_ids
          ELSE TwinIndexed(c) /\ c \in Range(new_chunks)

\* The chunks of one document of the batch, in the order chunk_document
\* returned them
ChunksOf(doc) ==
    LET IsOf(chunk) == chunk.metadata.source = doc.metadata.source
        of == SelectSeq(chunks_with_ids, IsOf)
    IN  [j \in 1..Len(of) |-> of[j].page_content]

\* The last n characters of c are the first n characters of d
Shared(c, d, n) ==
    /\ n <= Len(c)
    /\ n <= Len(d)
    /\ SubSeq(c, Len(c) - n + 1, Len(c)) = SubSeq(d, 1, n)

\* C13: the chunks chunk_document returns for a text longer than chunk_size
\* are at most chunk_size characters long, and every chunk shares with the
\* next one a region (its end, the start of the next) of at least one and at
\* most chunk_overlap characters.
C13_ChunksBoundedAndOverlapping ==
    chunks_with_ids # <<>> =>
        \A i \in 1..Len(docs) :
            LET cs == ChunksOf(docs[i])
            IN  Len(docs[i].page_content) > chunk_size =>
                    /\ \A j \in 1..Len(cs) : Len(cs[j]) <= chunk_size
                    /\ \A j \in 1..(Len(cs) - 1) :
                          \E n \in 1..chunk_overlap :
                              Shared(cs[j], cs[j + 1], n)

\* c with its first n characters removed
Drop(c, n) == SubSeq(c, n + 1, Len(c))

\* C14: a document of 1200 characters is split, chunk_size 500 and
\* chunk_overlap 100, into exactly 3 chunks, in the order of the text;
\* removing from the second and the third the region each shares with the
\* chunk before it and concatenating gives the text of the document, and the
\* id of each chunk is the hash of source_id, "-" and the text of the chunk.
C14_ThreeChunksRebuildText ==
    chunks_with_ids # <<>> =>
        \A i \in 1..Len(docs) :
            LET text == docs[i].page_content
                cs == ChunksOf(docs[i])
            IN  Len(text) = 2 * chunk_size + 2 * chunk_overlap =>
                    /\ Len(cs) = 3
                    /\ \E n \in 0..chunk_overlap : \E o \in 0..chunk_overlap :
                          /\ Shared(cs[1], cs[2], n)
                          /\ Shared(cs[2], cs[3], o)
                          /\ cs[1] \o Drop(cs[2], n) \o Drop(cs[3], o) = text
                    /\ \A c \in Range(chunks_with_ids) :
                          c.metadata.id =
                              sha256(<<c.metadata.source_id, "-">>
                                         \o c.page_content)

\* The batch selected by filter_new_chunks holds an id twice: two chunks of
\* one source with the same trimmed text, their id not in the index.
DuplicateBatch ==
    \E i \in 1..Len(new_chunks) : \E j \in 1..Len(new_chunks) :
        /\ i # j
        /\ new_chunks[i].metadata.id = new_chunks[j].metadata.id
        /\ new_chunks[i].metadata.source_id = new_chunks[j].metadata.source_id
        /\ SameText(new_chunks[i], new_chunks[j])
        /\ new_chunks[i].metadata.id \notin existing_ids

\* C19: a batch that holds the same new id twice does not make the merge
\* fail: add_chunks_to_chroma can return on it, and when a merge has completed
\* every submitted id is in the index, once.
C19_DuplicateIdsCollapse ==
    /\ (pc = "add_chunks_to_chroma" /\ DuplicateBatch) =>
          ENABLED AddChunksToChroma
    /\ merge = "completed" => Ids(submitted) \subseteq chroma

\* A process has read the ids of the index and has not inserted yet
Deciding(p) == p = "add_chunks_to_chroma"

\* C20: the merges of two overlapping runs do not interleave: while one has
\* read the ids of the index and not yet inserted, the other has not read
\* them and the index is as it was read; so no id is selected as new by both
\* runs and no id is handed to db.add_documents by both.
C20_IndexAccessIsSerialized ==
    /\ ~(Deciding(pc) /\ Deciding(other.pc))
    /\ Deciding(pc) => chroma = existing_ids
    /\ Deciding(other.pc) => chroma = other.existing_ids
    /\ Ids(submitted) \cap Ids(other.submitted) = {}

\* Every chunk that came back from a call of the id harness, with the number
\* of the call, its position in the batch and the index of that call.
Identified ==
    UNION { { [call |-> a, pos |-> i, db_ids |-> id_calls[a].db_ids,
               chunk |-> id_calls[a].chunks_with_ids[i]] :
                  i \in 1..Len(id_calls[a].chunks_with_ids) } :
            a \in 1..Len(id_calls) }

SameKey(c, d) ==
    /\ c.metadata.source_id = d.metadata.source_id
    /\ strip(c.page_content) = strip(d.page_content)

\* C12: the id calculate_chunk_ids gives a chunk depends on its source_id and
\* on its text with the surrounding whitespace removed, and on nothing else:
\* two chunks with the same source_id and the same trimmed text get the same
\* id, whatever their positions in their batches, their other metadata, the
\* ids in the index and the call; the chunks filter_new_chunks returns carry
\* these ids.
C12_IdDependsOnSourceAndText ==
    /\ \A x \in Identified : \A y \in Identified :
          SameKey(x.chunk, y.chunk) =>
              x.chunk.metadata.id = y.chunk.metadata.id
    /\ \A a \in 1..Len(id_calls) :
          Range(id_calls[a].new_chunks) \subseteq
              Range(id_calls[a].chunks_with_ids)

\* Two calls on different indexes; the same text, padded with whitespace in
\* one of them, at different positions and with different types, got one id.
C12_Witness ==
    \E x \in Identified : \E y \in Identified :
        /\ x.call # y.call
        /\ x.pos # y.pos
        /\ x.db_ids # y.db_ids
        /\ x.chunk.metadata.type # y.chunk.metadata.type
        /\ x.chunk.page_content # y.chunk.page_content
        /\ SameKey(x.chunk, y.chunk)
        /\ x.chunk.metadata.id = y.chunk.metadata.id

-----------------------------------------------------------------------------
(* Properties of the extractor *)

Called == ret # NotCalled
Fetched == web.status = "200"
IsPdf == web.content_type \in PdfContentTypes
Attempted(scraper) == \E j \in 1..Len(ret.calls) : ret.calls[j] = scraper

\* A strategy fails when it throws or its text is shorter than the threshold.
StrategyFailed(result) == result.throws \/ Len(result.text) < MinLength

\* C7: for a response with a PDF content type only the PDF strategy is
\* attempted, neither the article nor the HTML strategy after it, and a PDF
\* parse that throws makes fetch_content raise.
C7_NoFallbackAfterPdf ==
    (Called /\ Fetched /\ IsPdf) =>
        /\ ret.calls = <<"fetch_url", "pdf_scraper">>
        /\ ~Attempted("newspaper_scraper")
        /\ ~Attempted("beautifulsoup_scraper")
        /\ web.pdf.throws => ret.raised

\* The PDF parse threw although the article and the HTML strategy would both
\* have succeeded.
C7_Witness ==
    /\ Called /\ Fetched /\ IsPdf
    /\ web.pdf.throws
    /\ ~StrategyFailed(web.article)
    /\ ~StrategyFailed(web.html)
    /\ ret.raised

\* C8: for a non-PDF response the article strategy is attempted first; the
\* HTML strategy is attempted if and only if the article strategy threw or
\* produced text below the threshold, and its text, when sufficient, is the
\* text of the returned document.
C8_HtmlIffArticleFailed ==
    (Called /\ Fetched /\ ~IsPdf) =>
        /\ Len(ret.calls) >= 2
        /\ ret.calls[2] = "newspaper_scraper"
        /\ Attempted("beautifulsoup_scraper") <=> StrategyFailed(web.article)
        /\ (Attempted("beautifulsoup_scraper") /\ ~StrategyFailed(web.html)) =>
              /\ ~ret.raised
              /\ ret.doc.page_content = clean_text(web.html.text)

\* C9: for a non-PDF response fetch_content raises if and only if the article
\* strategy and the HTML strategy both failed, and a returned document holds
\* the text of a strategy that did not fail.
C9_RaisesIffBothFailed ==
    (Called /\ Fetched /\ ~IsPdf) =>
        /\ ret.raised <=> (StrategyFailed(web.article) /\ StrategyFailed(web.html))
        /\ ~ret.raised =>
              \/ /\ ~StrategyFailed(web.article)
                 /\ ret.doc.page_content = clean_text(strip(web.article.text))
              \/ /\ ~StrategyFailed(web.html)
                 /\ ret.doc.page_content = clean_text(web.html.text)

\* C10: the doc type of a returned document is PDF exactly when the content
\* type was PDF and the parse succeeded, Article exactly when the article
\* strategy succeeded, HTML exactly when the article strategy failed and the
\* HTML strategy succeeded.
C10_DocTypeNamesStrategy ==
    (Called /\ ~ret.raised) =>
        LET type == ret.doc.metadata.type
        IN  /\ type \in {"PDF", "Article", "HTML"}
            /\ type = "PDF" <=> (IsPdf /\ ~web.pdf.throws)
            /\ type = "Article" <=> (~IsPdf /\ ~StrategyFailed(web.article))
            /\ type = "HTML" <=> /\ ~IsPdf
                                 /\ StrategyFailed(web.article)
                                 /\ ~StrategyFailed(web.html)

\* fetch_content returned a document of this type with this text, as
\* build_document stores it
ReturnsText(type, text) ==
    /\ ~ret.raised
    /\ ret.doc.metadata.type = type
    /\ ret.doc.page_content = clean_text(text)

\* C21: a strategy that did not throw and whose text meets its length policy
\* (none for the PDF parse, MinLength characters for the article and the HTML
\* strategy) gives the returned document its text, whatever the text is, the
\* string "Error" included: the PDF parse for a PDF response, the article
\* strategy for another response, the HTML strategy when the article strategy
\* failed.
C21_SuccessIsNotTakenForFailure ==
    (Called /\ Fetched) =>
        /\ (IsPdf /\ ~web.pdf.throws) => ReturnsText("PDF", web.pdf.text)
        /\ (~IsPdf /\ ~StrategyFailed(web.article)) =>
              ReturnsText("Article", strip(web.article.text))
        /\ (~IsPdf /\ StrategyFailed(web.article)
                /\ ~StrategyFailed(web.html)) =>
              ReturnsText("HTML", web.html.text)

\* The strategy did not throw and the text it returns has MinLength
\* characters or more
Sufficient(result, text) == ~result.throws /\ Len(text) >= MinLength

\* C22: the article strategy and the HTML strategy of web_scraping.py follow
\* one length policy, measured on the text the strategy returns: the article
\* strategy succeeds, and its text is the document, exactly when that text
\* has MinLength characters or more, and the HTML strategy, when it is
\* attempted, likewise.
C22_SameLengthPolicy ==
    (Called /\ Fetched /\ ~IsPdf) =>
        /\ ReturnsText("Article", strip(web.article.text)) <=>
              Sufficient(web.article, strip(web.article.text))
        /\ Attempted("beautifulsoup_scraper") =>
              (ReturnsText("HTML", web.html.text) <=>
                   Sufficient(web.html, web.html.text))

CalledBoth == Called /\ ret_scrapping # NotCalledScrapping

\* No text a strategy extracted is shorter than the threshold.
NoShortText ==
    \A s \in {web.pdf, web.article, web.html} :
        ~s.throws => Len(s.text) >= MinLength

StrategyOf(scrapper) ==
    CASE scrapper = "pdf_scrapper" -> "PDF"
      [] scrapper = "newspaper_scrapper" -> "Article"
      [] scrapper = "beautifulsoup_scrapper" -> "HTML"
      [] OTHER -> ""

SameOutcome ==
    /\ ret.raised <=> ret_scrapping.raised
    /\ ~ret.raised => ret.doc.metadata.type = StrategyOf(ret_scrapping.scrapper)

\* C23 as stated: when no extracted text is shorter than 100 characters, the
\* two revisions of fetch_content both fail or both succeed with the same
\* strategy and the same text.
C23_RevisionsAgree ==
    (CalledBoth /\ NoShortText) =>
        /\ SameOutcome
        /\ ~ret.raised => ret.doc.page_content = ret_scrapping.text

\* C23, amended: when no extracted text is shorter than 100 characters, the
\* two revisions of fetch_content both fail or both succeed with the same
\* strategy, and the text of web_scraping.py is the text of web_scrapping.py
\* without the characters that cannot be encoded.
C23_RevisionsAgreeUpToEncoding ==
    (CalledBoth /\ NoShortText) =>
        /\ SameOutcome
        /\ ~ret.raised => ret.doc.page_content = clean_text(ret_scrapping.text)

\* Both revisions fell back to the HTML strategy after an article that did
\* not throw, and the two texts differ by a character that cannot be encoded.
C23_Witness ==
    /\ CalledBoth
    /\ NoShortText
    /\ ~ret.raised
    /\ ~ret_scrapping.raised
    /\ ~web.article.throws
    /\ ret_scrapping.scrapper = "beautifulsoup_scrapper"
    /\ ret.doc.metadata.type = "HTML"
    /\ ret.doc.page_content # ret_scrapping.text

\* The chunk ids derived from the document the running run extracted for url
IdsOfUrl(url) ==
    LET IsOf(chunk) == chunk.metadata.source = url
    IN  Ids(SelectSeq(calculate_chunk_ids(chunk_document(docs)), IsOf))

Marks(j) == urls[j].ingested = 0 /\ urls'[j].ingested = 1

\* C24: no step removes an id from the index, and a step that sets the flag of
\* a URL leaves in the index every chunk id derived from the document the run
\* extracted for that URL; so in every reachable state the chunk ids of every
\* marked URL are in the index, whatever extraction or index write failed.
C24_MarkedChunksAreIndexed ==
    [][ /\ chroma \subseteq chroma'
        /\ \A j \in 1..Len(urls) :
              Marks(j) => IdsOfUrl(urls[j].url) \subseteq chroma' ]_vars

\* A second run completed after a run whose index write raised half way, one
\* of its URLs failed in extraction, and the other one is marked with its
\* chunk ids in the index.
C24_Witness ==
    /\ RunOver
    /\ runs = 2
    /\ outcome = "completed"
    /\ existing_ids # {}
    /\ \E url \in Range(pending) : FetchFailed(url) /\ ~IngestedFlag(url)
    /\ \E url \in Range(pending) :
          /\ IngestedFlag(url)
          /\ IdsOfUrl(url) # {}
          /\ IdsOfUrl(url) \subseteq chroma

\* C25: a step sets the flag only of URLs that were pending when the run
\* started and for which fetch_content returned in this run; a URL save_item
\* inserted after the run read its pending list has its flag at 0 all along
\* the run and at its end, and the next run finds it pending.
C25_LateUrlWaitsForNextRun ==
    [][ /\ \A j \in 1..Len(urls) :
              Marks(j) => /\ urls[j].url \in Range(pending)
                          /\ FetchSucceeded(urls[j].url)
        /\ \A url \in inserted' : ~IngestedFlag(url)'
        /\ runs' # runs => inserted \subseteq Range(pending') ]_vars

\* A run that marked a URL is over, and a URL inserted while it was running
\* is stored with its flag at 0.
C25_Witness ==
    /\ RunOver
    /\ outcome = "completed"
    /\ \E url \in Range(pending) : IngestedFlag(url)
    /\ \E url \in inserted :
          /\ url \notin Range(pending)
          /\ url \in Unmarked

\* The stages of run_pipeline from initialize_chroma_db on
MergeStages ==
    {"filter_new_chunks", "add_chunks_to_chroma", "mark_urls_as_ingested"}

\* The run that is over had no pending URL, or fetch_content raised for every
\* one of them.
NothingExtracted ==
    /\ RunOver
    /\ \/ pending = <<>>
       \/ /\ Len(log) = Len(pending)
          /\ \A j \in 1..Len(log) : log[j].raised

\* C26: the index is read or written and a flag is set only in the stages
\* after process_urls, which a run enters only with a document in docs; so a
\* run with no pending URL, or whose every extraction failed, ends without
\* having read or written the index and without a flag set, the index and
\* the flags being what they were when it started.
C26_EmptyRunTouchesNothing ==
    /\ [](pc \in MergeStages => docs # <<>> /\ pending # <<>>)
    /\ [](NothingExtracted =>
              /\ outcome \in {"no_db", "no_urls", "no_docs"}
              /\ merge = "not_started"
              /\ chunks_with_ids = <<>>
              /\ submitted = <<>>
              /\ \A url \in Range(pending) : ~IngestedFlag(url))
    /\ [][ (chroma' # chroma \/ FlagChanges) =>
              pc \in {"add_chunks_to_chroma", "mark_urls_as_ingested"} ]_vars

\* A second run whose every extraction failed is over; the index and the
\* flag the first run left are still there.
C26_Witness ==
    /\ NothingExtracted
    /\ runs = 2
    /\ pending # <<>>
    /\ outcome = "no_docs"
    /\ chroma # {}
    /\ \E url \in Unmarked : url \in Range(pending)
    /\ \E j \in 1..Len(urls) : urls[j].ingested = 1

====
